---- MODULE Spec2Model ----
(***************************************************************************)
(* ts-json-db: the typed wrapper TypedJsonDB (src/src/index.ts, the        *)
(* revision with updatePath and throwIfNotFound) over the JSON document    *)
(* engine JsonDB of node-json-db.  One store instance, one backing file.   *)
(*                                                                         *)
(* Strings are sequences of one-character strings, so that building a      *)
(* path (updatePath) and taking it apart again (processDataPath,           *)
(* processArray) are two separate computations.  The declared paths are    *)
(* "/l" (single), "/r" (array) and "/t" (dictionary).                      *)
(***************************************************************************)
EXTENDS Integers, Sequences, FiniteSets, TLC

VARIABLES data, loaded, file, disk, separator, saveOnPush, throwArg, throwIfNotFound, last

vars == <<data, loaded, file, disk, separator, saveOnPush, throwArg, throwIfNotFound, last>>

(***************************************************************************)
(* Notation: With(e, LAMBDA v : body) is body for the value v of e, a      *)
(* local constant (const v = e) whose value is computed once.              *)
(***************************************************************************)
With(e, body(_)) == CHOOSE r \in {body(v) : v \in {e}} : TRUE

(***************************************************************************)
(* Bounds of the model.                                                    *)
(***************************************************************************)
\* longest array the caller builds
MaxLen == 2

(***************************************************************************)
(* JavaScript values: a node is a record [k, s, o, a]: k the kind, s the    *)
(* text of a string, o the properties of an object (a function from keys   *)
(* to nodes), a the slots of an array (a sequence of nodes), in which Hole *)
(* marks an index that was never assigned (a sparse slot).                 *)
(***************************************************************************)
Node(k, s, o, a) == [k |-> k, s |-> s, o |-> o, a |-> a]

Str(s) == Node("str", s, <<>>, <<>>)
Obj(f) == Node("obj", "", f, <<>>)
Arr(q) == Node("arr", "", <<>>, q)
Null == Node("null", "", <<>>, <<>>)
Hole == Node("hole", "", <<>>, <<>>)
Undefined == Node("undefined", "", <<>>, <<>>)
Bool(b) == Node("bool", IF b THEN "true" ELSE "false", <<>>, <<>>)

EmptyObj == <<>>

ObjPut(f, key, val) ==
    [x \in (DOMAIN f) \cup {key} |-> IF x = key THEN val ELSE f[x]]

ObjDel(f, key) == [x \in (DOMAIN f) \ {key} |-> f[x]]

\* arr.hasOwnProperty(i), i counted from 0
ArrHasOwn(s, i) == i \in 0..(Len(s) - 1) /\ s[i + 1].k # "hole"

\* arr[i] = val: assigning past the end leaves unassigned slots in between
ArrSet(s, i, val) ==
    [j \in 1..(IF i + 1 > Len(s) THEN i + 1 ELSE Len(s)) |->
        IF j = i + 1 THEN val ELSE IF j <= Len(s) THEN s[j] ELSE Hole]

\* arr.splice(i, 1)
ArrSplice(s, i) ==
    IF i \in 0..(Len(s) - 1)
    THEN [j \in 1..(Len(s) - 1) |-> IF j <= i THEN s[j] ELSE s[j + 1]]
    ELSE s

(***************************************************************************)
(* The caller's values (test/databaseContent.ts): a Login / Restaurant is  *)
(* an object with the fields u and p, a team is a string.                  *)
(***************************************************************************)
fU == <<"u">>
fP == <<"p">>

Rec(u, p) == Obj([x \in {fU, fP} |-> IF x = fU THEN Str(u) ELSE Str(p)])

Partial(key, s) == Obj([x \in {key} |-> Str(s)])

\* the elements of the array
ObjValues == {Rec("a", "a"), Rec("b", "a")}

\* the values of the single
SingleValues == {Rec("a", "a"), Rec("b", "a")}

\* Partial<valueType>: the data the caller merges
PartialValues == {Partial(fU, "b")}

StrValues == {Str("a"), Str("b")}

ArrayValues == {Arr(<<>>), Arr(<<Rec("a", "a")>>), Arr(<<Rec("a", "a"), Rec("b", "a")>>)}

kA == <<"a">>

\* a second simple key, which the caller of the model passes in no step
kB == <<"b">>

DictValues == {Obj(EmptyObj), Obj([x \in {kA} |-> Str("a")])}

(***************************************************************************)
(* Paths and locators.                                                     *)
(***************************************************************************)
\* the separators a store is constructed with
Separators == {"/"}

pSingle == <<"/", "l">>
pArray == <<"/", "r">>
pDict == <<"/", "t">>

\* a locator [k, i, s]: omitted, the index i, or the key s
NoLoc == [k |-> "none", i |-> 0, s |-> <<>>]
Idx(i) == [k |-> "num", i |-> i, s |-> <<>>]
Key(s) == [k |-> "key", i |-> 0, s |-> s]

Indices == (-1)..(MaxLen - 1)

\* the keys a caller passes: a simple key, the empty key and a key with a
\* trailing separator
Keys == {kA, <<>>, <<"a", "/">>}

(***************************************************************************)
(* Number <-> string, as string concatenation and parseInt do it.          *)
(***************************************************************************)
DigitChars == <<"0", "1", "2", "3", "4", "5", "6", "7", "8", "9">>

RECURSIVE Digits(_)
Digits(n) ==
    IF n < 10 THEN <<DigitChars[n + 1]>>
    ELSE Digits(n \div 10) \o <<DigitChars[(n % 10) + 1]>>

\* "" + location, for an integer location
NumToStr(i) == IF i < 0 THEN <<"-">> \o Digits(-i) ELSE Digits(i)

DigitVal(c) == CHOOSE d \in 0..9 : DigitChars[d + 1] = c

IsDigits(s) == Len(s) > 0 /\ \A j \in 1..Len(s) : \E d \in 1..10 : DigitChars[d] = s[j]

\* isInt(index) of node-json-db
IsInt(s) == IsDigits(s) \/ (Len(s) > 1 /\ s[1] = "-" /\ IsDigits(Tail(s)))

RECURSIVE DigitsVal(_)
DigitsVal(s) ==
    IF Len(s) = 1 THEN DigitVal(s[1])
    ELSE 10 * DigitsVal(SubSeq(s, 1, Len(s) - 1)) + DigitVal(s[Len(s)])

\* parseInt(index)
ParseInt(s) == IF s[1] = "-" THEN 0 - DigitsVal(Tail(s)) ELSE DigitsVal(s)

(***************************************************************************)
(* TypedJsonDB.updatePath: the path handed to JsonDB.                      *)
(***************************************************************************)
\* a revision that tests the location for truthiness instead of its type
updatePath_truthy(path, location, arrayEnd) ==
    IF location.k = "num" /\ location.i # 0
    THEN path \o <<"[">> \o NumToStr(location.i) \o <<"]">>
    ELSE IF location.k = "key" /\ location.s # <<>>
    THEN path \o <<"/">> \o location.s
    ELSE IF arrayEnd THEN path \o <<"[", "]">>
    ELSE path

\* a revision that closes the path of a key with a slash
updatePath_slashed(path, location, arrayEnd) ==
    IF location.k = "num"
    THEN path \o <<"[">> \o NumToStr(location.i) \o <<"]">>
    ELSE IF location.k = "key"
    THEN path \o <<"/">> \o location.s \o <<"/">>
    ELSE IF arrayEnd THEN path \o <<"[", "]">>
    ELSE path

updatePath(path, location, arrayEnd) ==
    IF location.k = "num"
    THEN path \o <<"[">> \o NumToStr(location.i) \o <<"]">>
    ELSE IF location.k = "key"
    THEN path \o <<"/">> \o location.s
    ELSE IF arrayEnd THEN path \o <<"[", "]">>
    ELSE path

(***************************************************************************)
(* node-json-db: taking a data path apart.                                 *)
(***************************************************************************)
\* removeTrailingChar(dataPath, separator)
removeTrailingChar(dataPath, sep) ==
    IF Len(dataPath) > 1 /\ dataPath[Len(dataPath)] = sep
    THEN SubSeq(dataPath, 1, Len(dataPath) - 1)
    ELSE dataPath

\* dataPath.split(separator)
RECURSIVE Split(_, _)
Split(s, sep) ==
    IF \A j \in 1..Len(s) : s[j] # sep THEN <<s>>
    ELSE LET at == CHOOSE j \in 1..Len(s) :
                       s[j] = sep /\ \A h \in 1..(j - 1) : s[h] # sep
         IN  <<SubSeq(s, 1, at - 1)>> \o Split(SubSeq(s, at + 1, Len(s)), sep)

\* JsonDB.processDataPath: the segments of the path (the part before the
\* first separator is dropped)
processDataPath(dataPath, sep) ==
    IF dataPath = <<sep>> THEN <<>>
    ELSE Tail(Split(removeTrailingChar(dataPath, sep), sep))

\* ArrayInfo.processArray: the regular expression (.+)\[(.+|)\] on a
\* segment.  The first group is greedy: the bracket taken is the last "["
\* that has a "]" after it; the index runs to the last "]".
processArray(property) ==
    With({i \in 2..Len(property) :
             property[i] = "[" /\ \E j \in (i + 1)..Len(property) : property[j] = "]"},
         LAMBDA opens :
    IF opens = {}
    THEN [isArray |-> FALSE, property |-> property, append |-> FALSE, index |-> 0, bad |-> FALSE]
    ELSE With(CHOOSE i \in opens : \A h \in opens : h <= i, LAMBDA open :
         With(CHOOSE j \in (open + 1)..Len(property) :
                  property[j] = "]" /\ \A h \in (j + 1)..Len(property) : property[h] # "]",
              LAMBDA close :
         With(SubSeq(property, open + 1, close - 1), LAMBDA index :
             [isArray |-> TRUE,
              property |-> SubSeq(property, 1, open - 1),
              append |-> index = <<>>,
              index |-> IF IsInt(index) THEN ParseInt(index) ELSE 0,
              bad |-> index # <<>> /\ ~IsInt(index)]))))

\* the data paths the typed operations hand to the engine
DataPaths ==
    {updatePath(path, location, arrayEnd) :
         path \in {pSingle, pArray, pDict},
         location \in {NoLoc} \cup {Idx(i) : i \in Indices}
                         \cup {Key(key) : key \in Keys \cup {kB}},
         arrayEnd \in BOOLEAN}

\* processDataPath of those paths, taken apart once
SegmentsOf == [x \in DataPaths \X Separators |-> processDataPath(x[1], x[2])]

\* processDataPath(dataPath, sep), looked up where it is known
Segments(dataPath, sep) ==
    IF <<dataPath, sep>> \in DOMAIN SegmentsOf THEN SegmentsOf[<<dataPath, sep>>]
    ELSE processDataPath(dataPath, sep)

\* processArray of the segments of those paths, matched once
ArrayInfoOf ==
    [property \in UNION {{SegmentsOf[x][j] : j \in 1..Len(SegmentsOf[x])} : x \in DOMAIN SegmentsOf}
        |-> processArray(property)]

\* processArray(property), looked up where it is known
ArrayInfo(property) ==
    IF property \in DOMAIN ArrayInfoOf THEN ArrayInfoOf[property]
    ELSE processArray(property)

\* ArrayInfo.getIndex on the array arr
getIndex(info, arr) ==
    IF info.append THEN -1
    ELSE IF info.index = -1 THEN (IF Len(arr) = 0 THEN 0 ELSE Len(arr) - 1)
    ELSE info.index

(***************************************************************************)
(* node-json-db: the document engine.  A store is [data, loaded, file]:    *)
(* data is the root object (a function from keys to nodes), file the JSON  *)
(* text in the backing file.                                               *)
(***************************************************************************)
\* JSON.stringify: an unassigned array slot is written as null
RECURSIVE stringify(_)
stringify(node) ==
    CASE node.k = "obj" -> Obj([x \in DOMAIN node.o |-> stringify(node.o[x])])
      [] node.k = "arr" -> Arr([j \in 1..Len(node.a) |-> stringify(node.a[j])])
      [] node.k = "hole" -> Null
      [] OTHER -> node

\* the file's text, kept as the JSON tree it spells
Text(root) == [json |-> stringify(Obj(root)).o, whole |-> TRUE]

\* a text cut short by a write that did not finish: it spells no JSON tree
Torn == [json |-> EmptyObj, whole |-> FALSE]

\* JSON.parse, on a text it accepts
parse(text) == text.json

Ok(st) == [st |-> st, err |-> "none"]
Fail(st, e) == [st |-> st, err |-> e]

\* the conditions of the disk under the file: writable, or read-only, where
\* writeFileSync throws before it has written anything, or full, where
\* writeFileSync has opened the file for writing (which empties it) and
\* throws before the whole text is written
DiskStates == {"ok", "readonly", "full"}

\* JsonDB.save(force): the text goes straight into the file, and the error
\* of writeFileSync is thrown on as a DatabaseError
JsonDB_save(st, force) ==
    IF ~force /\ ~st.loaded THEN Fail(st, "DatabaseError")
    ELSE IF st.disk = "readonly" THEN Fail(st, "DatabaseError")
    ELSE IF st.disk = "full" THEN Fail([st EXCEPT !.file = Torn], "DatabaseError")
    ELSE Ok([st EXCEPT !.file = Text(st.data)])

\* JsonDB.load() throws a DatabaseError when JSON.parse rejects the text
LoadFails(st) == ~st.loaded /\ ~st.file.whole

\* JsonDB.load(): a load that throws leaves the store as it was
JsonDB_load(st) ==
    IF st.loaded \/ LoadFails(st) THEN st
    ELSE [st EXCEPT !.data = parse(st.file), !.loaded = TRUE]

\* JsonDB.reload()
JsonDB_reload(st) == JsonDB_load([st EXCEPT !.loaded = FALSE])

\* data.hasOwnProperty(property) for the keys of this model (no key is a
\* number or "length", so an array or a string owns none of them)
HasOwn(node, property) == node.k = "obj" /\ property \in DOMAIN node.o

Found(val) == [err |-> "none", val |-> val]
NotFound(e) == [err |-> e, val |-> Null]

\* JsonDB.retrieveData(dataPath, create = false), below node
RECURSIVE retrieveData(_, _)
retrieveData(node, segs) ==
    IF segs = <<>> THEN Found(node)
    ELSE With(ArrayInfo(Head(segs)), LAMBDA info :
         IF info.bad THEN NotFound("DataError")
         ELSE IF node.k = "null" THEN NotFound("TypeError")
         ELSE IF ~HasOwn(node, info.property) THEN NotFound("DataError")
         ELSE With(node.o[info.property], LAMBDA child :
              IF ~info.isArray THEN retrieveData(child, Tail(segs))
              ELSE IF child.k # "arr" THEN NotFound("DataError")
              ELSE IF ~info.append /\ ArrHasOwn(child.a, getIndex(info, child.a))
              THEN retrieveData(child.a[getIndex(info, child.a) + 1], Tail(segs))
              ELSE NotFound("DataError")))

\* JsonDB.getData(dataPath): [st, err, val]
JsonDB_getData(st, dataPath, sep) ==
    IF LoadFails(st) THEN [st |-> st, err |-> "DatabaseError", val |-> Null]
    ELSE
    With(JsonDB_load(st), LAMBDA st1 :
    With(Segments(dataPath, sep), LAMBDA segs :
    With(retrieveData(Obj(st1.data), segs), LAMBDA r :
        [st |-> st1, err |-> r.err, val |-> r.val])))

\* JsonDB.exists(dataPath): a DataError means false, any other error is
\* thrown on
JsonDB_exists(st, dataPath, sep) ==
    With(JsonDB_getData(st, dataPath, sep), LAMBDA r :
        [st |-> r.st,
         err |-> IF r.err = "DataError" THEN "none" ELSE r.err,
         val |-> r.err = "none"])

\* JsonDB.getParentData(dataPath, create = true): the container that holds
\* the last segment, created as {} when it is missing.  The paths of this
\* model have at most one segment before the last.
Parent(root, segs) ==
    CASE Len(segs) = 1 -> [root |-> root, node |-> Obj(root)]
      [] Len(segs) = 2 /\ ~ArrayInfo(segs[1]).isArray ->
            IF segs[1] \in DOMAIN root
            THEN [root |-> root, node |-> root[segs[1]]]
            ELSE [root |-> ObjPut(root, segs[1], Obj(EmptyObj)), node |-> Obj(EmptyObj)]

\* the root after the container was changed
WithParent(root, segs, node) ==
    IF Len(segs) = 1 THEN node.o ELSE ObjPut(root, segs[1], node)

\* merge(stored, data) of node-json-db's utilities: the keys of both, data
\* winning; objects under a common key are merged, arrays concatenated
RECURSIVE mergeObjects(_, _)
mergeObjects(stored, d) ==
    CASE stored.k \in {"undefined", "null"} -> d
      [] stored.k = "obj" ->
            Obj([x \in (DOMAIN stored.o) \cup (DOMAIN d.o) |->
                    IF x \notin DOMAIN d.o THEN stored.o[x]
                    ELSE IF x \notin DOMAIN stored.o THEN d.o[x]
                    ELSE IF stored.o[x].k = "arr"
                    THEN Arr(IF d.o[x].k = "arr" THEN stored.o[x].a \o d.o[x].a
                             ELSE Append(stored.o[x].a, d.o[x]))
                    ELSE IF stored.o[x].k \in {"obj", "null"} THEN mergeObjects(stored.o[x], d.o[x])
                    ELSE d.o[x]])

\* DBParentData.getData(): what the container holds under the last segment
StoredData(node, lastSeg) ==
    With(ArrayInfo(lastSeg), LAMBDA info :
    IF ~info.isArray
    THEN Found(IF HasOwn(node, lastSeg) THEN node.o[lastSeg] ELSE Undefined)
    ELSE IF ~HasOwn(node, info.property) THEN NotFound("TypeError")
    ELSE With(node.o[info.property], LAMBDA arr :
         IF arr.k # "arr" \/ ~ArrHasOwn(arr.a, getIndex(info, arr.a))
         THEN NotFound("DataError")
         ELSE Found(arr.a[getIndex(info, arr.a) + 1])))

\* the value JsonDB.push stores: data itself when it overrides, else data
\* merged with what is stored
ToSet(node, lastSeg, d, override) ==
    IF override \/ d.k \notin {"obj", "arr"} THEN Found(d)
    ELSE With(StoredData(node, lastSeg), LAMBDA stored :
         IF stored.err # "none" THEN stored
         ELSE IF d.k = "arr"
         THEN (IF stored.val.k = "undefined" THEN Found(d)
               ELSE IF stored.val.k # "arr" THEN NotFound("DataError")
               ELSE Found(Arr(stored.val.a \o d.a)))
         ELSE IF stored.val.k = "arr" THEN NotFound("DataError")
         ELSE Found(mergeObjects(stored.val, d)))

\* DBParentData.setData(toSet) on the container node
SetData(node, lastSeg, toSet) ==
    With(ArrayInfo(lastSeg), LAMBDA info :
    CASE node.k \in {"str", "null"} -> NotFound("TypeError")
      [] node.k = "obj" /\ ~info.isArray -> Found(Obj(ObjPut(node.o, lastSeg, toSet)))
      [] node.k = "obj" /\ info.isArray /\ info.bad -> NotFound("DataError")
      [] node.k = "obj" /\ info.isArray /\ ~info.bad ->
         With(IF HasOwn(node, info.property) THEN node.o[info.property] ELSE Arr(<<>>),
              LAMBDA arr :
         IF arr.k # "arr" THEN NotFound("DataError")
         ELSE IF info.append
         THEN Found(Obj(ObjPut(node.o, info.property, Arr(Append(arr.a, toSet)))))
         ELSE Found(Obj(ObjPut(node.o, info.property,
                               Arr(ArrSet(arr.a, getIndex(info, arr.a), toSet)))))))

\* the implicit save after a mutation
SaveOnPush(st, sop) == IF sop THEN JsonDB_save(st, FALSE) ELSE Ok(st)

\* JsonDB.push(dataPath, data, override)
JsonDB_push(st, dataPath, d, override, sep, sop) ==
    IF LoadFails(st) THEN Fail(st, "DatabaseError")
    ELSE
    With(JsonDB_load(st), LAMBDA st1 :
    With(Segments(dataPath, sep), LAMBDA segs :
    With(Parent(st1.data, segs), LAMBDA par :
    With(ToSet(par.node, segs[Len(segs)], d, override), LAMBDA toSet :
    IF toSet.err # "none" THEN Fail([st1 EXCEPT !.data = par.root], toSet.err)
    ELSE With(SetData(par.node, segs[Len(segs)], toSet.val), LAMBDA written :
         IF written.err # "none" THEN Fail([st1 EXCEPT !.data = par.root], written.err)
         ELSE With([st1 EXCEPT !.data = WithParent(par.root, segs, written.val)],
                   LAMBDA st2 : SaveOnPush(st2, sop)))))))

\* DBParentData.delete() on the container node
DeleteData(node, lastSeg) ==
    With(ArrayInfo(lastSeg), LAMBDA info :
    IF ~info.isArray
    THEN (IF node.k = "obj" THEN Found(Obj(ObjDel(node.o, lastSeg))) ELSE Found(node))
    ELSE IF ~HasOwn(node, info.property) THEN NotFound("TypeError")
    ELSE With(node.o[info.property], LAMBDA arr :
         IF arr.k # "arr" \/ ~ArrHasOwn(arr.a, getIndex(info, arr.a))
         THEN NotFound("DataError")
         ELSE Found(Obj(ObjPut(node.o, info.property,
                               Arr(ArrSplice(arr.a, getIndex(info, arr.a))))))))

\* JsonDB.delete(dataPath)
JsonDB_delete(st, dataPath, sep, sop) ==
    IF LoadFails(st) THEN Fail(st, "DatabaseError")
    ELSE
    With(JsonDB_load(st), LAMBDA st1 :
    With(Segments(dataPath, sep), LAMBDA segs :
    With(Parent(st1.data, segs), LAMBDA par :
    With(DeleteData(par.node, segs[Len(segs)]), LAMBDA deleted :
    IF deleted.err # "none" THEN Fail([st1 EXCEPT !.data = par.root], deleted.err)
    ELSE With([st1 EXCEPT !.data = WithParent(par.root, segs, deleted.val)],
              LAMBDA st2 : SaveOnPush(st2, sop))))))

(***************************************************************************)
(* TypedJsonDB: the typed operations.  cfg is the instance's configuration *)
(* [sep, sop, tinf]: separator, saveOnPush and the throwIfNotFound field.  *)
(* Each operation yields the store after it, the error thrown ("none" when *)
(* it returns) and the value returned.                                     *)
(***************************************************************************)
Result(r, ret) == With(r, LAMBDA v : [st |-> v.st, err |-> v.err, ret |-> ret])

\* a revision of get that always catches the error of the read
get_quiet(st, cfg, path, location) ==
    With(JsonDB_getData(st, updatePath(path, location, FALSE), cfg.sep), LAMBDA r :
        [st |-> r.st, err |-> "none", ret |-> IF r.err = "none" THEN r.val ELSE Null])

\* a revision of get that saves the Document it has read
get_saving(st, cfg, path, location) ==
    With(JsonDB_getData(st, updatePath(path, location, FALSE), cfg.sep), LAMBDA r :
        IF ~cfg.tinf
        THEN [st |-> JsonDB_save(r.st, TRUE).st, err |-> "none",
              ret |-> IF r.err = "none" THEN r.val ELSE Null]
        ELSE [st |-> JsonDB_save(r.st, TRUE).st, err |-> r.err, ret |-> r.val])

\* a revision of get that reads the first element for the index -1
get_first(st, cfg, path, location) ==
    With(JsonDB_getData(st, updatePath(path, IF location = Idx(-1) THEN Idx(0) ELSE location,
                                       FALSE), cfg.sep), LAMBDA r :
        IF ~cfg.tinf
        THEN [st |-> r.st, err |-> "none", ret |-> IF r.err = "none" THEN r.val ELSE Null]
        ELSE [st |-> r.st, err |-> r.err, ret |-> r.val])

get(st, cfg, path, location) ==
    With(JsonDB_getData(st, updatePath(path, location, FALSE), cfg.sep), LAMBDA r :
        IF ~cfg.tinf
        THEN [st |-> r.st, err |-> "none", ret |-> IF r.err = "none" THEN r.val ELSE Null]
        ELSE [st |-> r.st, err |-> r.err, ret |-> r.val])

\* a revision of set that pushes without override
set_merge(st, cfg, path, d) ==
    Result(JsonDB_push(st, path, d, FALSE, cfg.sep, cfg.sop), Undefined)

\* a revision of set that takes the array form of the path
set_arrayEnd(st, cfg, path, d) ==
    Result(JsonDB_push(st, updatePath(path, NoLoc, TRUE), d, TRUE, cfg.sep, cfg.sop), Undefined)

set(st, cfg, path, d) ==
    Result(JsonDB_push(st, path, d, TRUE, cfg.sep, cfg.sop), Undefined)

\* a revision of push that takes the write back when the engine throws
push_rollback(st, cfg, path, d, location) ==
    With(JsonDB_push(st, updatePath(path, location, TRUE), d, TRUE, cfg.sep, cfg.sop),
         LAMBDA r : [st |-> IF r.err = "none" THEN r.st ELSE JsonDB_load(st),
                     err |-> r.err, ret |-> Undefined])

\* a revision of push on a store that does not save on push
push_unsaved(st, cfg, path, d, location) ==
    Result(JsonDB_push(st, updatePath(path, location, TRUE), d, TRUE, cfg.sep, FALSE),
           Undefined)

\* a revision of push that saves whatever the store was constructed with
push_saving(st, cfg, path, d, location) ==
    Result(JsonDB_push(st, updatePath(path, location, TRUE), d, TRUE, cfg.sep, TRUE),
           Undefined)

\* a revision of push that never asks for the end of the array
push_noArrayEnd(st, cfg, path, d, location) ==
    Result(JsonDB_push(st, updatePath(path, location, FALSE), d, TRUE, cfg.sep, cfg.sop),
           Undefined)

\* a revision of push that takes the index 0 when no locator is given
push_first(st, cfg, path, d, location) ==
    Result(JsonDB_push(st, updatePath(path, IF location = NoLoc THEN Idx(0) ELSE location, TRUE),
                       d, TRUE, cfg.sep, cfg.sop),
           Undefined)

push(st, cfg, path, d, location) ==
    Result(JsonDB_push(st, updatePath(path, location, TRUE), d, TRUE, cfg.sep, cfg.sop),
           Undefined)

\* a revision of merge that saves the Document before it throws for a missing
\* target
merge_saving(st, cfg, path, d, location) ==
    With(updatePath(path, location, FALSE), LAMBDA p :
    With(JsonDB_exists(st, p, cfg.sep), LAMBDA e :
        IF e.err # "none" THEN [st |-> e.st, err |-> e.err, ret |-> Undefined]
        ELSE IF ~e.val
        THEN [st |-> JsonDB_save(e.st, TRUE).st, err |-> "MergeError", ret |-> Undefined]
        ELSE Result(JsonDB_push(e.st, p, d, FALSE, cfg.sep, cfg.sop), Undefined)))

\* a revision of merge that leaves the locator out of the path
merge_atPath(st, cfg, path, d, location) ==
    With(JsonDB_exists(st, path, cfg.sep), LAMBDA e :
        IF e.err # "none" THEN [st |-> e.st, err |-> e.err, ret |-> Undefined]
        ELSE IF ~e.val THEN [st |-> e.st, err |-> "MergeError", ret |-> Undefined]
        ELSE Result(JsonDB_push(e.st, path, d, FALSE, cfg.sep, cfg.sop), Undefined))

\* a revision of merge without the existence test
merge_unchecked(st, cfg, path, d, location) ==
    Result(JsonDB_push(st, updatePath(path, location, FALSE), d, FALSE, cfg.sep, cfg.sop),
           Undefined)

merge(st, cfg, path, d, location) ==
    With(updatePath(path, location, FALSE), LAMBDA p :
    With(JsonDB_exists(st, p, cfg.sep), LAMBDA e :
        IF e.err # "none" THEN [st |-> e.st, err |-> e.err, ret |-> Undefined]
        ELSE IF ~e.val THEN [st |-> e.st, err |-> "MergeError", ret |-> Undefined]
        ELSE Result(JsonDB_push(e.st, p, d, FALSE, cfg.sep, cfg.sop), Undefined)))

\* a revision of exists on an engine that takes its empty Document for loaded
exists_unloaded(st, cfg, path, location) ==
    With(JsonDB_exists([st EXCEPT !.loaded = TRUE], updatePath(path, location, FALSE), cfg.sep),
         LAMBDA e : [st |-> e.st, err |-> e.err, ret |-> Bool(e.val)])

\* a revision of exists that takes the array form of the path
exists_arrayEnd(st, cfg, path, location) ==
    With(JsonDB_exists(st, updatePath(path, location, TRUE), cfg.sep), LAMBDA e :
        [st |-> e.st, err |-> e.err, ret |-> Bool(e.val)])

exists(st, cfg, path, location) ==
    With(JsonDB_exists(st, updatePath(path, location, FALSE), cfg.sep), LAMBDA e :
        [st |-> e.st, err |-> e.err, ret |-> Bool(e.val)])

\* a revision of delete that removes the last element whatever the index
delete_last(st, cfg, path, location) ==
    Result(JsonDB_delete(st, updatePath(path, IF location.k = "num" THEN Idx(-1) ELSE location,
                                        FALSE), cfg.sep, cfg.sop), Undefined)

\* a revision of delete that takes the single path for every path
delete_single(st, cfg, path, location) ==
    Result(JsonDB_delete(st, updatePath(pSingle, location, FALSE), cfg.sep, cfg.sop), Undefined)

\* a revision of delete that takes the array form of the path
delete_arrayEnd(st, cfg, path, location) ==
    Result(JsonDB_delete(st, updatePath(path, location, TRUE), cfg.sep, cfg.sop), Undefined)

delete(st, cfg, path, location) ==
    Result(JsonDB_delete(st, updatePath(path, location, FALSE), cfg.sep, cfg.sop), Undefined)

\* a revision of pushIfNotExists without the existence test
pushIfNotExists_always(st, cfg, path, initialValue) ==
    Result(JsonDB_push(st, path, initialValue, TRUE, cfg.sep, cfg.sop), Undefined)

\* pushIfNotExists(path, initialValue) of the revision before the typed
\* overloads: internalDB.push when internalDB.exists says false
pushIfNotExists(st, cfg, path, initialValue) ==
    With(JsonDB_exists(st, path, cfg.sep), LAMBDA e :
        IF e.err # "none" THEN [st |-> e.st, err |-> e.err, ret |-> Undefined]
        ELSE IF ~e.val
        THEN Result(JsonDB_push(e.st, path, initialValue, TRUE, cfg.sep, cfg.sop), Undefined)
        ELSE [st |-> e.st, err |-> "none", ret |-> Undefined])

\* a revision of reload that keeps a Document already loaded
reload_keep(st) == [st |-> JsonDB_load(st), err |-> "none", ret |-> Undefined]

reload(st) ==
    [st |-> JsonDB_reload(st),
     err |-> IF ~st.file.whole THEN "DatabaseError" ELSE "none",
     ret |-> Undefined]

\* a revision of load that reads the file whether the store is loaded or not
load_again(st) ==
    [st |-> JsonDB_reload(st),
     err |-> IF ~st.file.whole THEN "DatabaseError" ELSE "none",
     ret |-> Undefined]

load(st) ==
    [st |-> JsonDB_load(st),
     err |-> IF LoadFails(st) THEN "DatabaseError" ELSE "none",
     ret |-> Undefined]

save(st, force) == Result(JsonDB_save(st, force), Undefined)

(***************************************************************************)
(* The state machine: one store instance and its caller.                   *)
(***************************************************************************)
S == [data |-> data, loaded |-> loaded, file |-> file, disk |-> disk]

Cfg == [sep |-> separator, sop |-> saveOnPush, tinf |-> throwIfNotFound]

\* the files found at the store's filename when it is constructed
InitFiles ==
    {Text([x \in {<<"l">>, <<"r">>, <<"t">>} |->
             CASE x = <<"l">> -> Rec("a", "a")
               [] x = <<"r">> -> Arr(<<Rec("a", "a")>>)
               [] x = <<"t">> -> Obj([y \in {kA} |-> Str("a")])])}

\* what last keeps of a call: the operation, the declared path, the kind of
\* locator ("none", "num", "key") and the error thrown ("none" on return)
Called(op, path, loc, err) == [op |-> op, path |-> path, loc |-> loc, err |-> err]

\* the throwIfNotFound arguments a store is constructed with (default: true)
ThrowArgs == {TRUE}

\* the saveOnPush arguments a store is constructed with (default: true)
SaveOnPushArgs == {TRUE}

\* new TypedJsonDB(filename, throwIfNotFound, saveOnPush, humanReadable, separator):
\* JsonDB's constructor writes an empty document when the file is missing
ConstructWith(separators, throwArgs, saveOnPushArgs) ==
    /\ separator \in separators
    /\ saveOnPush \in saveOnPushArgs
    /\ throwArg \in throwArgs
    /\ throwIfNotFound = (throwArg \/ TRUE)
    /\ \/ /\ file \in InitFiles
          /\ loaded = FALSE
       \/ /\ file = Text(EmptyObj)
          /\ loaded = TRUE
    /\ data = EmptyObj
    /\ disk = "ok"
    /\ last = Called("new", <<>>, "none", "none")

\* the store constructed with the default separator
Construct(throwArgs, saveOnPushArgs) == ConstructWith(Separators, throwArgs, saveOnPushArgs)

Init == Construct(ThrowArgs, SaveOnPushArgs)

\* the caller keeps its arrays within MaxLen
InBounds(root) == \A x \in DOMAIN root : root[x].k = "arr" => Len(root[x].a) <= MaxLen

Apply(op, path, loc, r) ==
    /\ InBounds(r.st.data)
    /\ data' = r.st.data
    /\ loaded' = r.st.loaded
    /\ file' = r.st.file
    /\ last' = Called(op, path, loc.k, r.err)
    /\ UNCHANGED <<disk, separator, saveOnPush, throwArg, throwIfNotFound>>

\* the (path, locator) pairs the typed overloads of get, exists and delete offer
Locations ==
    {<<pSingle, NoLoc>>, <<pArray, NoLoc>>, <<pDict, NoLoc>>}
        \cup {<<pArray, Idx(i)>> : i \in Indices}
        \cup {<<pDict, Key(key)>> : key \in Keys}

\* of a read, last keeps the operation and its error only
DoGet ==
    \E pl \in Locations : \E r \in {get(S, Cfg, pl[1], pl[2])} :
        Apply("get", <<>>, NoLoc, r)

DoExists ==
    \E pl \in Locations : \E r \in {exists(S, Cfg, pl[1], pl[2])} :
        Apply("exists", <<>>, NoLoc, r)

DoDelete ==
    \E pl \in Locations : \E r \in {delete(S, Cfg, pl[1], pl[2])} :
        Apply("delete", pl[1], pl[2], r)

SetCalls == ({pSingle} \X SingleValues) \cup ({pArray} \X ArrayValues) \cup ({pDict} \X DictValues)

DoSet ==
    \E c \in SetCalls : \E r \in {set(S, Cfg, c[1], c[2])} :
        Apply("set", c[1], NoLoc, r)

\* push(path, data, index?) on an array, push(path, data, key) on a dictionary
PushCalls ==
    {<<pArray, d, l>> : d \in ObjValues, l \in {NoLoc} \cup {Idx(i) : i \in Indices}}
        \cup {<<pDict, d, Key(key)>> : d \in StrValues, key \in Keys}

DoPush ==
    \E c \in PushCalls : \E r \in {push(S, Cfg, c[1], c[2], c[3])} :
        Apply("push", c[1], c[3], r)

\* merge(path, data) on a single, merge(path, data, index) on an array,
\* merge(path, data, key) on a dictionary
MergeCalls ==
    {<<pSingle, d, NoLoc>> : d \in PartialValues}
        \cup {<<pArray, d, Idx(i)>> : d \in PartialValues, i \in Indices}
        \cup {<<pDict, d, Key(key)>> : d \in StrValues, key \in Keys}

DoMerge ==
    \E c \in MergeCalls : \E r \in {merge(S, Cfg, c[1], c[2], c[3])} :
        Apply("merge", c[1], c[3], r)

DoReload == \E r \in {reload(S)} : Apply("reload", <<>>, NoLoc, r)

DoLoad == \E r \in {load(S)} : Apply("load", <<>>, NoLoc, r)

DoSave ==
    \E force \in BOOLEAN : \E r \in {save(S, force)} :
        Apply("save", <<>>, NoLoc, r)

Next ==
    \/ DoGet
    \/ DoSet
    \/ DoPush
    \/ DoMerge
    \/ DoExists
    \/ DoDelete
    \/ DoReload
    \/ DoLoad
    \/ DoSave

Spec == Init /\ [][Next]_vars

\* a store constructed with throwIfNotFound = false
InitNoThrow == Construct({FALSE}, SaveOnPushArgs)

SpecNoThrow == InitNoThrow /\ [][Next]_vars

\* a store constructed with saveOnPush = false: the file is written by save
\* only
InitBuffered == Construct(ThrowArgs, {FALSE})

\* the caller of that store works on the single and on the dictionary (a read
\* is recorded without its path)
BufferedPaths == {<<>>, pSingle, pDict}

OnBufferedPaths == last.path \in BufferedPaths

NextBuffered ==
    \/ DoGet /\ OnBufferedPaths'
    \/ DoSet /\ OnBufferedPaths'
    \/ DoPush /\ OnBufferedPaths'
    \/ DoMerge /\ OnBufferedPaths'
    \/ DoExists /\ OnBufferedPaths'
    \/ DoDelete /\ OnBufferedPaths'
    \/ DoReload /\ OnBufferedPaths'
    \/ DoLoad /\ OnBufferedPaths'
    \/ DoSave /\ OnBufferedPaths'

SpecBuffered == InitBuffered /\ [][NextBuffered]_vars

\* a store constructed with either saveOnPush argument, and the caller of the
\* buffered store
InitEitherSave == Construct(ThrowArgs, BOOLEAN)

SpecEitherSave == InitEitherSave /\ [][NextBuffered]_vars

\* the disk under the file turns read-only, full, or writable again
DiskChange ==
    /\ disk' \in DiskStates \ {disk}
    /\ UNCHANGED <<data, loaded, file, separator, saveOnPush, throwArg, throwIfNotFound, last>>

\* the default store on a disk that changes; its caller works on the single
\* and on the dictionary
NextFaulty ==
    \/ DoGet /\ OnBufferedPaths'
    \/ DoSet /\ OnBufferedPaths'
    \/ DoPush /\ OnBufferedPaths'
    \/ DoMerge /\ OnBufferedPaths'
    \/ DoExists /\ OnBufferedPaths'
    \/ DoDelete /\ OnBufferedPaths'
    \/ DoReload /\ OnBufferedPaths'
    \/ DoLoad /\ OnBufferedPaths'
    \/ DoSave /\ OnBufferedPaths'
    \/ DiskChange

SpecFaulty == Init /\ [][NextFaulty]_vars

\* the store that still offers pushIfNotExists beside the typed operations
DoPushIfNotExists ==
    \E c \in SetCalls : \E r \in {pushIfNotExists(S, Cfg, c[1], c[2])} :
        Apply("pushIfNotExists", c[1], NoLoc, r)

NextInitial ==
    \/ Next
    \/ DoPushIfNotExists

SpecInitial == Init /\ [][NextInitial]_vars

\* a store constructed with separator = ".": its caller writes the declared
\* path of the dictionary with that separator
InitDotted == ConstructWith({"."}, ThrowArgs, SaveOnPushArgs)

dDict == <<".", "t">>

DottedKeys == {kA, <<>>}

DottedLocations == {<<dDict, NoLoc>>} \cup {<<dDict, Key(key)>> : key \in DottedKeys}

DoGetDotted ==
    \E pl \in DottedLocations : \E r \in {get(S, Cfg, pl[1], pl[2])} :
        Apply("get", <<>>, NoLoc, r)

DoExistsDotted ==
    \E pl \in DottedLocations : \E r \in {exists(S, Cfg, pl[1], pl[2])} :
        Apply("exists", <<>>, NoLoc, r)

DoDeleteDotted ==
    \E pl \in DottedLocations : \E r \in {delete(S, Cfg, pl[1], pl[2])} :
        Apply("delete", pl[1], pl[2], r)

DoSetDotted ==
    \E d \in DictValues : \E r \in {set(S, Cfg, dDict, d)} :
        Apply("set", dDict, NoLoc, r)

DoPushDotted ==
    \E d \in StrValues, key \in DottedKeys : \E r \in {push(S, Cfg, dDict, d, Key(key))} :
        Apply("push", dDict, Key(key), r)

DoMergeDotted ==
    \E d \in StrValues, key \in DottedKeys : \E r \in {merge(S, Cfg, dDict, d, Key(key))} :
        Apply("merge", dDict, Key(key), r)

NextDotted ==
    \/ DoGetDotted
    \/ DoSetDotted
    \/ DoPushDotted
    \/ DoMergeDotted
    \/ DoExistsDotted
    \/ DoDeleteDotted
    \/ DoReload
    \/ DoLoad
    \/ DoSave

SpecDotted == InitDotted /\ [][NextDotted]_vars

(***************************************************************************)
(* The properties.  Doc is the Document the next operation works on: the   *)
(* in-memory tree, read from the file when the store is not loaded yet.    *)
(***************************************************************************)
Doc == JsonDB_load(S).data

rKey == <<"r">>
tKey == <<"t">>

\* the length of the array at the array path, 0 when nothing is there
ArrayLength == IF rKey \in DOMAIN Doc THEN Len(Doc[rKey].a) ELSE 0

\* a get that returns the value val
Returns(g, val) == g.err = "none" /\ g.ret = val

\* the location holds no data: a get of it finds nothing
NoData(path, location) == get(S, Cfg, path, location).err # "none"

\* C1: in every reachable state, set(p, v) on the single path immediately
\* followed by get(p) returns a value equal to v, for every value v.
C1_SetThenGet ==
    \A v \in SingleValues :
        LET r == set(S, Cfg, pSingle, v)
        IN  r.err = "none" /\ Returns(get(r.st, Cfg, pSingle, NoLoc), v)

\* a set on the single path has returned and the single reads as one of the
\* caller's values
C1_Witness ==
    /\ last = Called("set", pSingle, "none", "none")
    /\ get(S, Cfg, pSingle, NoLoc).ret \in SingleValues

\* C2: when the array path holds an array of length n or nothing (n = 0),
\* push(p, v) without index followed by get(p, -1) returns v, and get(p, n)
\* returns the same v.
C2_PushThenGetLast ==
    \A v \in ObjValues :
        (rKey \in DOMAIN Doc => Doc[rKey].k = "arr") =>
            LET r == push(S, Cfg, pArray, v, NoLoc)
            IN  /\ r.err = "none"
                /\ Returns(get(r.st, Cfg, pArray, Idx(-1)), v)
                /\ Returns(get(r.st, Cfg, pArray, Idx(ArrayLength)), v)

\* a push without index has returned on an array that held an element
\* already: the pushed value is the last of at least two
C2_Witness ==
    /\ last = Called("push", pArray, "none", "none")
    /\ ArrayLength >= 2
    /\ get(S, Cfg, pArray, Idx(-1)).ret \in ObjValues
    /\ get(S, Cfg, pArray, Idx(-1)) = get(S, Cfg, pArray, Idx(ArrayLength - 1))

C4_MergeOnMissing ==
    \A c \in MergeCalls :
        NoData(c[1], c[3]) => merge(S, Cfg, c[1], c[2], c[3]).err = "MergeError"

\* merges have failed for a missing target while nothing is stored under
\* any of the three paths
C4_Witness ==
    /\ last.op = "merge"
    /\ last.err = "MergeError"
    /\ Doc = EmptyObj
    /\ \A c \in MergeCalls : NoData(c[1], c[3])

\* res combines o and d shallowly: every key of d has d's value, every other
\* key of o keeps o's value, and there is no other key
ShallowMerge(o, d, res) ==
    /\ res.k = "obj"
    /\ DOMAIN res.o = (DOMAIN o.o) \cup (DOMAIN d.o)
    /\ \A x \in DOMAIN d.o : res.o[x] = d.o[x]
    /\ \A x \in (DOMAIN o.o) \ (DOMAIN d.o) : res.o[x] = o.o[x]

\* a single whose field p is a list, and the data that gives p a new list
ListValue == Obj([x \in {fU, fP} |-> IF x = fU THEN Str("a") ELSE Arr(<<Str("a")>>)])
ListData == Obj([x \in {fP} |-> Arr(<<Str("b")>>)])

C6_DeleteThenExists ==
    \A pl \in Locations :
        pl[2].k # "num" =>
            LET r == delete(S, Cfg, pl[1], pl[2])
            IN  r.err = "none" /\ exists(r.st, Cfg, pl[1], pl[2]) = [st |-> r.st, err |-> "none", ret |-> Bool(FALSE)]

\* a delete with a dictionary key has returned and has removed the only
\* value of the dictionary, which is still there, empty
C6_Witness ==
    /\ last = Called("delete", pDict, "key", "none")
    /\ tKey \in DOMAIN Doc
    /\ Doc[tKey] = Obj(EmptyObj)
    /\ exists(S, Cfg, pDict, Key(kA)).ret = Bool(FALSE)

ComplexKey(key) == \E j \in 1..Len(key) : key[j] \in {"/", "["}

\* the key matches ^[^/\[]+$
SimpleKey(key) == Len(key) > 0 /\ ~ComplexKey(key)

\* the errors of the five dictionary operations called with the key
KeyedErrors(key) ==
    {get(S, Cfg, pDict, Key(key)).err, exists(S, Cfg, pDict, Key(key)).err,
     delete(S, Cfg, pDict, Key(key)).err}
        \cup {push(S, Cfg, pDict, d, Key(key)).err : d \in StrValues}
        \cup {merge(S, Cfg, pDict, d, Key(key)).err : d \in StrValues}

\* C8: a dictionary operation with a key (get, push, merge, exists, delete)
\* accepts a key that matches ^[^/\[]+$ and fails with the invalid-key error
\* when the key contains "/" or "[".
C8_KeyValidation ==
    \A key \in Keys :
        /\ SimpleKey(key) => "InvalidKey" \notin KeyedErrors(key)
        /\ ComplexKey(key) => KeyedErrors(key) = {"InvalidKey"}

C10_NullWhenNotThrowing ==
    throwArg = FALSE =>
        /\ throwIfNotFound = throwArg
        /\ \A pl \in Locations :
              exists(S, Cfg, pl[1], pl[2]).ret = Bool(FALSE) =>
                  Returns(get(S, Cfg, pl[1], pl[2]), Null)

\* the key of the document under which a declared path stores its entry
EntryKey(path) == <<path[2]>>

\* nothing was ever stored at the location: the path has no entry, the array
\* has no element at the index, the dictionary has no value at the key
Absent(path, location) ==
    \/ EntryKey(path) \notin DOMAIN Doc
    \/ /\ location.k = "num"
       /\ Doc[EntryKey(path)].k = "arr"
       /\ \/ location.i >= Len(Doc[EntryKey(path)].a)
          \/ location.i = -1 /\ Len(Doc[EntryKey(path)].a) = 0
    \/ /\ location.k = "key"
       /\ location.s # <<>>
       /\ Doc[EntryKey(path)].k = "obj"
       /\ location.s \notin DOMAIN Doc[EntryKey(path)].o

\* C11: on a store constructed with the default throwIfNotFound, a get on a
\* location that holds no data (a path without entry, an index the array does
\* not have, a key the dictionary does not have) throws the error of a read
\* that finds nothing and returns no value.
C11_GetMissingThrows ==
    \A pl \in Locations :
        (pl[2].k = "key" => pl[2].s = kA) /\ Absent(pl[1], pl[2]) =>
            get(S, Cfg, pl[1], pl[2]).err = "DataError"

\* a get has thrown on a store constructed with throwIfNotFound = true while
\* the dictionary had no value at the key
C11_Witness ==
    /\ last = Called("get", <<>>, "none", "DataError")
    /\ throwArg /\ throwIfNotFound
    /\ Absent(pDict, Key(kA))

\* C12: in every reachable state and for every declared path p and value v,
\* pushIfNotExists(p, v) returns; when exists(p) is false a get(p) after it
\* returns v; when exists(p) is true the Document and the file are what they
\* were; and a second pushIfNotExists(p, v) changes nothing any more.
C12_PushIfNotExists ==
    \A c \in SetCalls :
        LET e  == exists(S, Cfg, c[1], NoLoc)
            r  == pushIfNotExists(S, Cfg, c[1], c[2])
            r2 == pushIfNotExists(r.st, Cfg, c[1], c[2])
        IN  /\ r.err = "none"
            /\ e.ret = Bool(FALSE) => Returns(get(r.st, Cfg, c[1], NoLoc), c[2])
            /\ e.ret = Bool(TRUE) => r.st.data = Doc /\ r.st.file = file
            /\ r2.err = "none" /\ r2.st = r.st

\* a pushIfNotExists on the array path has returned and the array still has
\* the unassigned slot a push past its end left: the data that existed was
\* kept
C12_Witness ==
    /\ last = Called("pushIfNotExists", pArray, "none", "none")
    /\ ArrayLength >= 2
    /\ Doc[rKey].a[1] = Hole

\* the dictionary path holds a dictionary or nothing
IsDictionary == tKey \in DOMAIN Doc => Doc[tKey].k = "obj"

\* C13: when the dictionary path holds a dictionary or nothing, for the simple
\* key k and all strings v1, v2: push(p, v1, k) returns and get(p, k) then
\* returns v1; merge(p, v2, k) after it returns and get(p, k) then returns v2.
C13_DictionaryPushMerge ==
    IsDictionary =>
        \A v1 \in StrValues :
            LET r1 == push(S, Cfg, pDict, v1, Key(kA))
            IN  /\ r1.err = "none"
                /\ Returns(get(r1.st, Cfg, pDict, Key(kA)), v1)
                /\ \A v2 \in StrValues :
                       LET r2 == merge(r1.st, Cfg, pDict, v2, Key(kA))
                       IN  /\ r2.err = "none"
                           /\ Returns(get(r2.st, Cfg, pDict, Key(kA)), v2)

\* a merge with a key has returned on the dictionary and the key reads as a
\* string no set and no file put there
C13_Witness ==
    /\ last = Called("merge", pDict, "key", "none")
    /\ IsDictionary
    /\ Returns(get(S, Cfg, pDict, Key(kA)), Str("b"))

\* C14: in every reachable state, whatever the declared path holds, a
\* set(p, data) of a whole single, array or dictionary returns, get(p) then
\* returns data, and the entry of the path in the Document is data itself:
\* nothing of what was stored there is left.
C14_SetOverwrites ==
    \A c \in SetCalls :
        LET r == set(S, Cfg, c[1], c[2])
        IN  /\ r.err = "none"
            /\ Returns(get(r.st, Cfg, c[1], NoLoc), c[2])
            /\ r.st.data[EntryKey(c[1])] = c[2]

\* a set of the empty dictionary has returned and the dictionary path reads
\* as the empty dictionary
C14_Witness ==
    /\ last = Called("set", pDict, "none", "none")
    /\ Returns(get(S, Cfg, pDict, NoLoc), Obj(EmptyObj))

\* C15: in every reachable state where the dictionary path holds a dictionary
\* or nothing, a push(p, v) on the dictionary path without key throws and
\* leaves the Document and the file as they were.
C15_PushWithoutKey ==
    IsDictionary =>
        \A v \in StrValues :
            LET r == push(S, Cfg, pDict, v, NoLoc)
            IN  r.err # "none" /\ r.st.data = Doc /\ r.st.file = file

\* the array path holds an array or nothing
IsArray == rKey \in DOMAIN Doc => Doc[rKey].k = "arr"

\* C16: in every reachable state where the array path holds an array or
\* nothing, a merge(p, d) on the array path without index throws and leaves
\* the Document and the file as they were, for an element d that is a partial
\* object or a string.
C16_MergeWithoutIndex ==
    IsArray =>
        \A d \in PartialValues \cup StrValues :
            LET r == merge(S, Cfg, pArray, d, NoLoc)
            IN  r.err # "none" /\ r.st.data = Doc /\ r.st.file = file

\* the operations that change the Document
Mutators == {"set", "push", "merge", "delete"}

\* C17: on a store constructed with saveOnPush = true, whenever a set, push,
\* merge or delete has returned, the content of the file is the text of the
\* in-memory Document.
C17_SavedAfterMutation ==
    saveOnPush /\ last.op \in Mutators /\ last.err = "none" => file = Text(data)

\* a push without index has returned, the array has two elements and the
\* file holds them
C17_Witness ==
    /\ saveOnPush
    /\ last = Called("push", pArray, "none", "none")
    /\ ArrayLength = 2
    /\ file = Text(data)
    /\ Len(file.json[rKey].a) = 2

\* C18: on a store that saves on demand only, every reload() leaves the
\* in-memory Document equal to what the file holds at that moment, whatever
\* the Document was before (mutations that were not saved are gone), and
\* leaves the file as it was.
C18_ReloadReplaces ==
    [][last'.op = "reload" => data' = parse(file) /\ loaded' /\ file' = file]_vars

\* a reload has returned on a store constructed with saveOnPush = false whose
\* file was written by a save after a push: the Document is the file's
C18_Witness ==
    /\ ~saveOnPush
    /\ last = Called("reload", <<>>, "none", "none")
    /\ data = parse(file)
    /\ Returns(get(S, Cfg, pDict, Key(kA)), Str("b"))

\* the operations that read the Document
Readers == {"get", "exists"}

\* C19: whenever a get, an exists, a set, a push, a merge or a delete is the
\* first access to a store that has not loaded its file, the store is loaded
\* after it, returned or thrown; after a read the Document holds every entry of
\* the file, and after a write every entry of the file under another path is
\* still in the Document and in the file.
C19_LazyLoad ==
    [][~loaded /\ last'.op \in Readers \cup Mutators =>
          /\ loaded'
          /\ \A x \in DOMAIN parse(file) :
                 (last'.op \in Readers \/ x # EntryKey(last'.path)) =>
                     /\ x \in DOMAIN data' /\ data'[x] = parse(file)[x]
                     /\ x \in DOMAIN parse(file') /\ parse(file')[x] = parse(file)[x]]_vars

\* a set on the single path has returned and the array and the dictionary the
\* file held at construction are in the Document beside the new single
C19_Witness ==
    /\ last = Called("set", pSingle, "none", "none")
    /\ Returns(get(S, Cfg, pSingle, NoLoc), Rec("b", "a"))
    /\ Returns(get(S, Cfg, pArray, NoLoc), Arr(<<Rec("a", "a")>>))
    /\ Returns(get(S, Cfg, pDict, NoLoc), Obj([y \in {kA} |-> Str("a")]))

\* the store on a disk that can be written again
Repaired(st) == [st EXCEPT !.disk = "ok"]

\* C20: in every reachable state with a read-only disk, of a store that has
\* its Document or can load it: a push on the
\* dictionary and a set of the single throw the error of the save, yet a get
\* after them returns the value written; an explicit save throws and leaves
\* the Document as it is; and once the disk can be written, a save returns
\* and the file holds the text of the Document with those writes.
C20_FailedSaveKeepsMutations ==
    disk = "readonly" /\ ~LoadFails(S) /\ IsDictionary =>
        /\ \A v \in StrValues :
               LET r == push(S, Cfg, pDict, v, Key(kA))
                   w == save(Repaired(r.st), FALSE)
               IN  /\ r.err = "DatabaseError"
                   /\ Returns(get(r.st, Cfg, pDict, Key(kA)), v)
                   /\ w.err = "none" /\ w.st.file = Text(r.st.data)
                   /\ Returns(get(w.st, Cfg, pDict, Key(kA)), v)
        /\ \A v \in SingleValues :
               LET r == set(S, Cfg, pSingle, v)
                   w == save(Repaired(r.st), FALSE)
               IN  /\ r.err = "DatabaseError"
                   /\ Returns(get(r.st, Cfg, pSingle, NoLoc), v)
                   /\ w.err = "none" /\ w.st.file = Text(r.st.data)
        /\ LET f == save(S, TRUE)
               w == save(Repaired(f.st), TRUE)
           IN  /\ f.err = "DatabaseError" /\ f.st.data = data
               /\ w.err = "none" /\ w.st.file = Text(data)

\* a push with a key has thrown the error of the save; the dictionary reads
\* the pushed string at the key and the file does not hold it
C20_Witness ==
    /\ last = Called("push", pDict, "key", "DatabaseError")
    /\ Returns(get(S, Cfg, pDict, Key(kA)), Str("b"))
    /\ file # Text(data)

C22_FileOnlyOnSave ==
    [][/\ ~saveOnPush /\ last'.op \in Mutators => file' = file
       /\ ~saveOnPush /\ file' # file => last'.op = "save"]_vars

\* a push with a key has returned on a store that does not save on push: the
\* dictionary reads the pushed string and the file does not hold it
C22_Witness ==
    /\ ~saveOnPush
    /\ last = Called("push", pDict, "key", "none")
    /\ Returns(get(S, Cfg, pDict, Key(kA)), Str("b"))
    /\ file # Text(data)

\* the (path, locator) pairs of the typed overloads, the declared paths
\* written with the separator of the store
DeclaredLocations == {<<(<<separator>> \o Tail(pl[1])), pl[2]>> : pl \in Locations}

\* the path an operation of the kind is said to address: basePath[i] for an
\* index, basePath + separator + key for a key, and for an omitted locator
\* basePath[] under push and basePath under the other operations
Resolved(path, location, kind) ==
    CASE location.k = "num" -> path \o <<"[">> \o NumToStr(location.i) \o <<"]">>
      [] location.k = "key" -> path \o <<separator>> \o location.s
      [] OTHER -> IF kind = "push" THEN path \o <<"[", "]">> ELSE path

\* C23: in every reachable state, for every declared path and every locator
\* its kind takes (an index, a key, or none), get, exists, delete and merge
\* with the locator do what they do on the resolved path without a locator,
\* and push with the locator does what a write at the resolved path does.
C23_PathResolution ==
    \A pl \in DeclaredLocations :
        LET path == pl[1]
            location == pl[2]
        IN  /\ get(S, Cfg, path, location)
                   = get(S, Cfg, Resolved(path, location, "get"), NoLoc)
            /\ exists(S, Cfg, path, location)
                   = exists(S, Cfg, Resolved(path, location, "exists"), NoLoc)
            /\ delete(S, Cfg, path, location)
                   = delete(S, Cfg, Resolved(path, location, "delete"), NoLoc)
            /\ \A d \in StrValues :
                   /\ merge(S, Cfg, path, d, location)
                          = merge(S, Cfg, Resolved(path, location, "merge"), d, NoLoc)
                   /\ push(S, Cfg, path, d, location)
                          = set(S, Cfg, Resolved(path, location, "push"), d)

\* C24: in every reachable state of a store constructed with the separator
\* ".", a push of a string with the key a on the dictionary that returns is
\* followed by a get with that key that returns the string, and a get of the
\* dictionary returns a map whose entry a is the string.
C24_SeparatorKey ==
    \A v \in StrValues :
        LET r == push(S, Cfg, dDict, v, Key(kA))
            m == get(r.st, Cfg, dDict, NoLoc)
        IN  r.err = "none" =>
                /\ Returns(get(r.st, Cfg, dDict, Key(kA)), v)
                /\ m.err = "none" /\ m.ret.k = "obj"
                /\ kA \in DOMAIN m.ret.o /\ m.ret.o[kA] = v

C27_IndexZeroIsAnIndex ==
    rKey \in DOMAIN Doc /\ Doc[rKey].k = "arr" =>
        LET arr == Doc[rKey].a
        IN  /\ arr = <<>> =>
                   /\ exists(S, Cfg, pArray, Idx(0)).ret = Bool(FALSE)
                   /\ exists(S, Cfg, pArray, NoLoc).ret = Bool(TRUE)
            /\ arr # <<>> /\ arr[1].k = "obj" =>
                   /\ Returns(get(S, Cfg, pArray, Idx(0)), arr[1])
                   /\ exists(S, Cfg, pArray, Idx(0)).ret = Bool(TRUE)
                   /\ \A v \in ObjValues :
                          LET r == push(S, Cfg, pArray, v, Idx(0))
                          IN  r.err = "none" /\ r.st.data[rKey] = Arr([arr EXCEPT ![1] = v])
                   /\ \A d \in PartialValues :
                          LET r == merge(S, Cfg, pArray, d, Idx(0))
                          IN  /\ r.err = "none"
                              /\ r.st.data[rKey].k = "arr"
                              /\ Len(r.st.data[rKey].a) = Len(arr)
                              /\ \A x \in DOMAIN d.o : r.st.data[rKey].a[1].o[x] = d.o[x]
                              /\ \A j \in 2..Len(arr) : r.st.data[rKey].a[j] = arr[j]
                   /\ LET r == delete(S, Cfg, pArray, Idx(0))
                      IN  r.err = "none" /\ r.st.data[rKey] = Arr(Tail(arr))

\* a push with the index 0 has returned on an array of two elements: it has
\* replaced the first and kept the second
C27_Witness ==
    /\ last = Called("push", pArray, "num", "none")
    /\ Returns(get(S, Cfg, pArray, NoLoc), Arr(<<Rec("b", "a"), Rec("b", "a")>>))
    /\ Returns(get(S, Cfg, pArray, Idx(0)), Rec("b", "a"))

\* C28: in every reachable state and for every value v of the single,
\* push(p, v) on the single path does what set(p, v) does: the same error or
\* return, the same Document and file, and a get(p) after it returns v.
C28_PushOnSingleIsSet ==
    \A v \in SingleValues :
        LET r == push(S, Cfg, pSingle, v, NoLoc)
        IN  /\ r = set(S, Cfg, pSingle, v)
            /\ Returns(get(r.st, Cfg, pSingle, NoLoc), v)

\* C29: in every reachable state and for every path and locator of the typed
\* overloads, exists returns true exactly when get returns data, and exists
\* throws only what get throws.
C29_ExistsIffGetFinds ==
    \A pl \in Locations :
        LET e == exists(S, Cfg, pl[1], pl[2])
            g == get(S, Cfg, pl[1], pl[2])
        IN  /\ e.ret = Bool(g.err = "none")
            /\ e.err # "none" => e.err = g.err

\* a delete with a key has returned: for the key, exists returns false and
\* get throws, and for the dictionary exists returns true and get returns it
C29_Witness ==
    /\ last = Called("delete", pDict, "key", "none")
    /\ exists(S, Cfg, pDict, Key(kA)) = [st |-> S, err |-> "none", ret |-> Bool(FALSE)]
    /\ get(S, Cfg, pDict, Key(kA)).err = "DataError"
    /\ exists(S, Cfg, pDict, NoLoc).ret = Bool(TRUE)
    /\ Returns(get(S, Cfg, pDict, NoLoc), Obj(EmptyObj))

\* C30: in every reachable state and for every dictionary d, set(p, d) on
\* the dictionary path returns and exists(p, "") after it returns true.
C30_ExistsWithEmptyKey ==
    \A d \in DictValues :
        LET r == set(S, Cfg, pDict, d)
        IN  /\ r.err = "none"
            /\ exists(r.st, Cfg, pDict, Key(<<>>))
                   = [st |-> r.st, err |-> "none", ret |-> Bool(TRUE)]

\* a set of the empty dictionary has returned, and exists with the empty key
\* returns true
C30_Witness ==
    /\ last = Called("set", pDict, "none", "none")
    /\ Returns(get(S, Cfg, pDict, NoLoc), Obj(EmptyObj))
    /\ exists(S, Cfg, pDict, Key(<<>>)).ret = Bool(TRUE)

\* C31: in every reachable state, what the Document holds at the array path
\* is an array and what it holds at the dictionary path is a map.
C31_ShapeKept ==
    /\ rKey \in DOMAIN Doc => Doc[rKey].k = "arr"
    /\ tKey \in DOMAIN Doc => Doc[tKey].k = "obj"

\* C32: in every reachable state, a merge that throws the error of a missing
\* target leaves the store as a load leaves it: the Document and the file
\* are what they were, nothing is saved, and every later call finds the
\* store it would have found without the merge.
C32_FailedMergeChangesNothing ==
    \A c \in MergeCalls :
        LET r == merge(S, Cfg, c[1], c[2], c[3])
        IN  r.err = "MergeError" =>
                /\ r.st = JsonDB_load(S)
                /\ r.st.data = Doc /\ r.st.file = file

\* a merge with a key has thrown for a missing target on a writable disk
\* while the file does not hold the Document: nothing was saved
C32_Witness ==
    /\ last = Called("merge", pDict, "key", "MergeError")
    /\ disk = "ok"
    /\ loaded
    /\ file # Text(data)

\* C33: every step of set, push, merge or delete on a declared path leaves
\* every other property of the Document as it was: the same properties are
\* there, with the same values, whether the call returns or throws.
C33_OtherPathsUnchanged ==
    [][last'.op \in Mutators =>
           \A x \in ((DOMAIN Doc) \cup (DOMAIN data')) \ {EntryKey(last'.path)} :
               /\ x \in DOMAIN Doc /\ x \in DOMAIN data'
               /\ data'[x] = Doc[x]]_vars

\* a delete of the dictionary has returned, and the single and the array
\* hold what a caller has written there
C33_Witness ==
    /\ last = Called("delete", pDict, "none", "none")
    /\ tKey \notin DOMAIN Doc
    /\ Returns(get(S, Cfg, pSingle, NoLoc), Rec("b", "a"))
    /\ Returns(get(S, Cfg, pArray, NoLoc), Arr(<<Rec("a", "a"), Rec("b", "a")>>))

\* C34: on a store that has loaded its file, with saveOnPush set or not,
\* every step of get or exists, returning or throwing, leaves the Document,
\* the file and the loaded flag as they were.
C34_ReadsChangeNothing ==
    [][loaded /\ last'.op \in Readers =>
           data' = data /\ file' = file /\ loaded']_vars

\* a get has thrown for missing data on a loaded store that does not save on
\* push: nothing is stored at the dictionary path, where a get with a key
\* finds nothing, and the file does not hold the Document
C34_Witness ==
    /\ last = Called("get", <<>>, "none", "DataError")
    /\ loaded /\ ~saveOnPush
    /\ tKey \notin DOMAIN data
    /\ get(S, Cfg, pDict, Key(kA)).err = "DataError"
    /\ file # Text(data)

\* C35: in every reachable state of a store that has loaded its file, load()
\* returns and leaves the store as it is, where reload() leaves the Document
\* the file holds: mutations that were not saved stay after load().
C35_LoadWhenLoaded ==
    loaded =>
        /\ load(S) = [st |-> S, err |-> "none", ret |-> Undefined]
        /\ reload(S).st.data = parse(file)

\* a load has returned on a loaded store that does not save on push: the
\* dictionary still reads the pushed string, which the file does not hold
C35_Witness ==
    /\ last = Called("load", <<>>, "none", "none")
    /\ loaded /\ ~saveOnPush
    /\ Returns(get(S, Cfg, pDict, Key(kA)), Str("b"))
    /\ tKey \in DOMAIN parse(file)
    /\ parse(file)[tKey] = Obj([y \in {kA} |-> Str("a")])

\* C36: in every reachable state where the array path holds an array of
\* length n, push(p, v) without index returns and leaves an array of length
\* n + 1 whose first n slots are the slots of the array before, in their
\* order, and whose last element is v; where nothing is stored at the path it
\* leaves the array of v alone.
C36_AppendKeepsElements ==
    \A v \in ObjValues :
        LET r == push(S, Cfg, pArray, v, NoLoc)
        IN  /\ rKey \in DOMAIN Doc /\ Doc[rKey].k = "arr" =>
                   /\ r.err = "none"
                   /\ r.st.data[rKey].k = "arr"
                   /\ Len(r.st.data[rKey].a) = Len(Doc[rKey].a) + 1
                   /\ \A j \in 1..Len(Doc[rKey].a) : r.st.data[rKey].a[j] = Doc[rKey].a[j]
                   /\ r.st.data[rKey].a[Len(Doc[rKey].a) + 1] = v
            /\ rKey \notin DOMAIN Doc =>
                   r.err = "none" /\ r.st.data[rKey] = Arr(<<v>>)

\* a push without index has returned and the array holds two elements, the
\* one that was there before and the one pushed after it
C36_Witness ==
    /\ last = Called("push", pArray, "none", "none")
    /\ Returns(get(S, Cfg, pArray, NoLoc), Arr(<<Rec("b", "a"), Rec("a", "a")>>))

====
